---- MODULE Spec2Model ----
(***************************************************************************)
(* The main process of the todo application (src/unnamed/part_004, the     *)
(* current main.js): initializeApp, the window events and the six IPC      *)
(* handlers, over a LanceDB table held on disk.                            *)
(*                                                                         *)
(* Every `await` of the source is a suspension point: a handler runs from  *)
(* one await to the next in one step.  The effect of an awaited embedder   *)
(* or table call takes place in the step that resumes the handler, and     *)
(* every awaited call may throw instead.                                   *)
(***************************************************************************)
EXTENDS Integers, Sequences, FiniteSets, TLC

(***************************************************************************)
(* Bounds of the model.                                                    *)
(***************************************************************************)
\* number of calendar days after 1970-01-01 the clock may reach
MaxDay == 2
\* number of requests the renderer sends in one run
MaxRequests == 3
\* stands for .limit(500) of get-todos
LIST_LIMIT == 2
\* stands for .limit(10) of search-todos
SEARCH_LIMIT == 2
\* stands for numItems = 100 of seed-demo-data
NUM_ITEMS == 2
\* stands for the 90 days seed-demo-data spreads its records over
SEED_DAYS == 2

\* milliseconds of one UTC day: the distance between "T00:00:00.000Z" of
\* two consecutive dates
MsPerDay == 86400000

\* the request slots: handler invocations that may be suspended at once
Slots == {1, 2}

(***************************************************************************)
(* Values.                                                                 *)
(***************************************************************************)
\* JavaScript null / undefined
Null == "<null>"

\* texts a caller submits to add-todo and update-todo
Texts == {"a", "b"}

\* the text seed-demo-data generates
DemoText == "demo"

\* queries a caller submits to search-todos
Queries == {Null, "", " ", "a"}

\* String.prototype.trim on the strings of the model
Trim(s) == IF s = " " THEN "" ELSE s

\* `if (str)`: null, undefined and "" are falsy
Truthy(str) == str # Null /\ str # ""

DayNames == <<"1970-01-01", "1970-01-02", "1970-01-03", "1970-01-04",
              "1970-01-05">>

Days == 0..MaxDay

\* the date strings a caller may pass: valid days, garbage, null
DateArgs == {DayNames[d + 1] : d \in Days} \cup {"not-a-date", Null}

\* new Date(date + "T00:00:00.000Z").getTime(): the set holding the
\* milliseconds, empty when the result is NaN
StartOfDayMs(date) ==
  {(i - 1) * MsPerDay : i \in {j \in 1..Len(DayNames) : DayNames[j] = date}}

\* new Date(date + "T23:59:59.999Z").getTime(), likewise
EndOfDayMs(date) ==
  {(i - 1) * MsPerDay + (MsPerDay - 1) :
     i \in {j \in 1..Len(DayNames) : DayNames[j] = date}}

DayOf(ms) == ms \div MsPerDay

\* the identifiers nanoid() returns, in the order it returns them: they
\* are pairwise distinct
IdName(i) == "n" \o ToString(i)

DummyId == "dummy_id_init"

\* an id no record ever had (nanoid never returns it)
UnknownId == "zz"

\* the embedder: text -> vector (one coordinate stands for the 384)
Embed(text) ==
  CASE text = "a" -> 0
    [] text = "b" -> 4
    [] text = DemoText -> 9
    [] OTHER -> 2

\* the vector of the schema seed record: new Array(384).fill(0.0)
DummyVector == 0

\* distance between two vectors (L2, squared)
Distance(v, w) == (v - w) * (v - w)


(***************************************************************************)
(* Records.                                                                *)
(***************************************************************************)
\* a row of the table
Row(id, text, vector, timestamp) ==
  [id |-> id, text |-> text, vector |-> vector, timestamp |-> timestamp]

\* what a handler returns of a row: { id, text, timestamp }
Item(r) == [id |-> r.id, text |-> r.text, timestamp |-> r.timestamp]

NoItem == [id |-> Null, text |-> Null, timestamp |-> 0 - 1]

\* a request slot that holds no handler invocation.  emb and tbl count the
\* embedder and table calls the handler has made, initAt is where
\* initializeApp stood and found how many rows carried the id when the
\* handler was entered; daysBack and times are the values Math.random()
\* yields to seed-demo-data.  orphan: the window that sent the request has
\* been closed, so no code of the renderer awaits the reply.
Idle ==
  [op |-> "idle", pc |-> "idle", text |-> Null, id |-> Null, query |-> Null,
   startDate |-> Null, endDate |-> Null, row |-> NoItem, acc |-> <<>>,
   today |-> 0, daysBack |-> {}, times |-> {}, emb |-> 0, tbl |-> 0,
   initAt |-> "none", found |-> 0, orphan |-> FALSE]

\* no response delivered since the last request started
NoResp ==
  [req |-> Idle, success |-> FALSE, error |-> "", item |-> NoItem,
   list |-> <<>>, count |-> 0, alone |-> TRUE]

\* what is remembered of the response that preceded a request
Summary(r) ==
  [op |-> r.req.op, success |-> r.success, item |-> r.item, alone |-> r.alone,
   found |-> r.req.found]

\* no click listener of the renderer has just returned without a request
NoDismissal == [click |-> "", value |-> "", alert |-> ""]

\* the request was sent while a handler was suspended
Overlapping == [Summary(NoResp) EXCEPT !.alone = FALSE]

(***************************************************************************)
(* The window's controls, as the renderer's functions set them.            *)
(***************************************************************************)
\* what index.html gives the controls before any script has run: the add
\* button shown, the update and cancel buttons hidden, the todos tab
\* active, the input field disabled until the store is ready
IndexHtml ==
  [addHidden |-> FALSE, updateHidden |-> TRUE, cancelHidden |-> TRUE,
   activeTab |-> "todos-tab", inputDisabled |-> TRUE]

\* the page as loaded: not editing, nothing typed, nothing listed.  shown
\* and results are the ids of the items of the main list and of the search
\* results; itemsDisabled says that the item buttons which existed when
\* edit mode was entered are disabled, fresh and freshResults are the items
\* rendered since, whose buttons are enabled.  pendingFetch: fetchTodos()
\* has been called and its get-todos has not reached the main process.
InitialUi ==
  [editingTodoId |-> "", originalText |-> Null, searchInput |-> "",
   startDate |-> "", endDate |-> "", searchDisabled |-> FALSE,
   tabsDisabled |-> FALSE, itemsDisabled |-> FALSE, statusError |-> FALSE,
   todoInput |-> "", shown |-> {}, results |-> {}, fresh |-> {},
   freshResults |-> {}, pendingFetch |-> FALSE, initialized |-> FALSE,
   addHidden |-> IndexHtml.addHidden, updateHidden |-> IndexHtml.updateHidden,
   cancelHidden |-> IndexHtml.cancelHidden, activeTab |-> IndexHtml.activeTab,
   inputDisabled |-> IndexHtml.inputDisabled]

\* the callback of initialization-error: the status text starts with
\* "Error", the inputs and the search controls are disabled, the tabs
\* ignore clicks
onInitializationError(u) ==
  [u EXCEPT !.statusError = TRUE, !.searchDisabled = TRUE,
            !.tabsDisabled = TRUE, !.inputDisabled = TRUE]

\* the callback of initialization-success: "App Ready. LanceDB initialized.",
\* the inputs enabled, then fetchTodos() and showTab("todos-tab")
onInitializationSuccess(u) ==
  [u EXCEPT !.statusError = FALSE, !.searchDisabled = FALSE,
            !.tabsDisabled = FALSE, !.inputDisabled = FALSE,
            !.initialized = TRUE, !.pendingFetch = TRUE,
            !.activeTab = "todos-tab"]

\* the callback the window runs for a notification
OnNotification(u, channel) ==
  IF channel = "initialization-error"
  THEN onInitializationError(u)
  ELSE onInitializationSuccess(u)

\* an enterEditMode that takes over from the edit that is open
enterEditModeAgain(u, todoId, currentText) ==
  [u EXCEPT !.editingTodoId = todoId, !.originalText = currentText,
            !.todoInput = currentText,
            !.addHidden = TRUE, !.updateHidden = FALSE,
            !.cancelHidden = FALSE,
            !.searchDisabled = TRUE, !.tabsDisabled = TRUE,
            !.itemsDisabled = TRUE, !.fresh = {}, !.freshResults = {}]

\* enterEditMode(todoId, currentText, ...): refused while another edit is
\* open, otherwise the input field takes the text, the add button gives way
\* to update and cancel, and the search controls, the tabs and the buttons
\* of the items listed at this moment are disabled
enterEditMode(u, todoId, currentText) ==
  IF u.editingTodoId # ""
  THEN u
  ELSE [u EXCEPT !.editingTodoId = todoId, !.originalText = currentText,
                 !.todoInput = currentText,
                 !.addHidden = TRUE, !.updateHidden = FALSE,
                 !.cancelHidden = FALSE,
                 !.searchDisabled = TRUE, !.tabsDisabled = TRUE,
                 !.itemsDisabled = TRUE, !.fresh = {}, !.freshResults = {}]

\* an exitEditMode that leaves the add button hidden
exitEditModeAddHidden(u) ==
  [u EXCEPT !.editingTodoId = "", !.originalText = Null, !.todoInput = "",
            !.updateHidden = TRUE, !.cancelHidden = TRUE]

\* exitEditMode(): the input field is cleared, the add button comes back;
\* the controls and every item button are enabled again unless
\* initializationStatus.textContent.startsWith("Error")
exitEditMode(u) ==
  LET left == [u EXCEPT !.editingTodoId = "", !.originalText = Null,
                        !.todoInput = "", !.addHidden = FALSE,
                        !.updateHidden = TRUE, !.cancelHidden = TRUE]
  IN IF ~u.statusError
     THEN [left EXCEPT !.searchDisabled = FALSE, !.tabsDisabled = FALSE,
                       !.itemsDisabled = FALSE, !.fresh = {},
                       !.freshResults = {}]
     ELSE left

\* the ids of the items whose Edit and Delete buttons take a click
Clickable(u) ==
  IF u.itemsDisabled
  THEN (u.shown \cap u.fresh) \cup (u.results \cap u.freshResults)
  ELSE u.shown \cup u.results

\* the ids of the items of a result list
ListedIds(list) == {list[k].id : k \in 1..Len(list)}

\* items rendered now: their buttons are enabled
Rendered(u, ids) == IF u.itemsDisabled THEN ids ELSE {}

\* what a listener does to the controls before it awaits the reply:
\* fetchTodos sets the status text to "Fetching todos..."
Sent(u, op) ==
  IF op = "get-todos"
  THEN [u EXCEPT !.statusError = FALSE, !.pendingFetch = FALSE]
  ELSE u

\* what the code after the await does to the controls.
\* add-todo: addTodoToDOM(result.item); todoInput.value = "".
\* get-todos: the status text ("Error fetching todos: ..." on failure) and
\* the main list, cleared and filled from result.todos.
\* search-todos: showTab("search-results-tab") and the results list.
\* update-todo: the item's text is replaced in place, then exitEditMode().
\* delete-todo: the item is removed from both lists.
\* seed-demo-data: showTab("todos-tab"); fetchTodos(), which returns at
\* once if todoInput.disabled.
Received(u, response) ==
  LET op == response.req.op
      ok == response.success
      id == response.req.id
      ids == ListedIds(response.list)
  IN CASE op = "add-todo" ->
            IF ok /\ response.item # NoItem
            THEN [u EXCEPT !.shown = @ \cup {response.item.id},
                           !.fresh = @ \cup Rendered(u, {response.item.id}),
                           !.todoInput = ""]
            ELSE u
       [] op = "get-todos" ->
            IF ok
            THEN [u EXCEPT !.statusError = FALSE, !.shown = ids,
                           !.fresh = Rendered(u, ids)]
            ELSE [u EXCEPT !.statusError = TRUE]
       [] op = "search-todos" ->
            [u EXCEPT !.activeTab = "search-results-tab",
                      !.results = IF ok THEN ids ELSE {},
                      !.freshResults = IF ok THEN Rendered(u, ids) ELSE {}]
       [] op = "update-todo" -> exitEditMode(u)
       [] op = "delete-todo" ->
            IF ok
            THEN [u EXCEPT !.shown = @ \ {id}, !.results = @ \ {id},
                           !.fresh = @ \ {id}, !.freshResults = @ \ {id}]
            ELSE u
       [] op = "seed-demo-data" ->
            IF ok
            THEN [u EXCEPT !.activeTab = "todos-tab",
                           !.pendingFetch = @ \/ ~u.inputDisabled]
            ELSE u
       [] OTHER -> u

VARIABLES
  initPc,      \* the await initializeApp is suspended at, or "done"/"failed"
  handles,     \* the module-level variables that have been assigned
  dummyData,   \* initializeApp's local dummyData
  mainWindow,  \* TRUE: a BrowserWindow, FALSE: null
  notified,    \* the notifications sent to the renderer, in order
  tableExists, \* the todos table is on disk
  rows,        \* the rows of the table, in storage order
  now,         \* Date.now()
  idsUsed,     \* how many identifiers nanoid() has returned
  reqs,        \* the handler invocations in flight, by slot
  resp,        \* the response the latest step delivered, NoResp if none
  raced,       \* ids for which two update-todo executions have overlapped
  prev,        \* what the latest step had delivered when the latest request
               \* was sent, Overlapping if a handler was suspended then
  issued,      \* how many requests the renderer has sent
  dismissed,   \* the click the latest step's listener returned from without
               \* sending a request, NoDismissal if none
  ui           \* the window's controls

vars ==
  <<initPc, handles, dummyData, mainWindow, notified, tableExists, rows, now,
    idsUsed, reqs, resp, raced, prev, issued, dismissed, ui>>

initVars == <<initPc, handles, dummyData, notified>>

\* a step of initializeApp, the window or the clock: no handler moves and
\* no response is delivered
Silent ==
  /\ resp' = NoResp
  /\ dismissed' = NoDismissal
  /\ ui' = IF Len(notified') > Len(notified)
           THEN OnNotification(ui, notified'[Len(notified')])
           ELSE ui
  /\ UNCHANGED <<reqs, raced, prev, issued>>

Init ==
  /\ initPc = "import_transformers"
  /\ handles = {}
  /\ dummyData = <<>>
  /\ mainWindow = TRUE
  /\ notified = <<>>
  /\ tableExists \in BOOLEAN
  /\ rows = <<>>
  /\ now = 0
  /\ idsUsed = 0
  /\ reqs = [s \in Slots |-> Idle]
  /\ resp = NoResp
  /\ raced = {}
  /\ prev = Summary(NoResp)
  /\ issued = 0
  /\ dismissed = NoDismissal
  /\ ui = InitialUi

(***************************************************************************)
(* The table layer (vectordb).                                             *)
(***************************************************************************)
\* a predicate that selects the rows with any other id
IdPredicateInverted(r, todoId) == r.id # todoId

\* the predicate `id = "${todoId}"` on a row
IdPredicate(r, todoId) == r.id = todoId

\* a delete that removes nothing
TableDeleteNothing(rs, todoId) == rs

\* a delete that removes every row
TableDeleteAll(rs, todoId) == <<>>

\* table.delete(`id = "${todoId}"`): the rows that remain
TableDelete(rs, todoId) ==
  LET Keep(r) == ~IdPredicate(r, todoId) IN SelectSeq(rs, Keep)

\* an add that stores nothing
TableAddDropped(rs, records) == rs

\* an add that stores the records twice
TableAddTwice(rs, records) == rs \o records \o records

\* table.add(records)
TableAdd(rs, records) == rs \o records

\* how many rows carry this id
CountId(rs, id) == Cardinality({i \in 1..Len(rs) : rs[i].id = id})

(***************************************************************************)
(* initializeApp.                                                          *)
(***************************************************************************)
\* mainWindow.webContents.send(channel), guarded by `if (mainWindow)`
Send(channel) ==
  notified' = IF mainWindow THEN Append(notified, channel) ELSE notified

\* the outer catch of initializeApp: the awaited call threw
InitCatch ==
  /\ initPc' = "failed"
  /\ Send("initialization-error")
  /\ UNCHANGED <<handles, dummyData, tableExists, rows>>

\* an await of initializeApp that assigns one module-level variable
InitAwait(at, assigned, next) ==
  /\ initPc = at
  /\ \/ /\ handles' = handles \cup {assigned}
        /\ initPc' = next
        /\ UNCHANGED <<dummyData, notified, tableExists, rows>>
     \/ InitCatch
  /\ UNCHANGED <<mainWindow, now, idsUsed>> /\ Silent

ImportTransformers ==
  InitAwait("import_transformers", "pipeline", "import_vectordb")

ImportVectordb == InitAwait("import_vectordb", "lancedb", "import_nanoid")

\* an import of nanoid that leaves nanoidFn unassigned
ImportNanoidUnassigned == InitAwait("import_nanoid", "lancedb", "import_arrow")

ImportNanoid == InitAwait("import_nanoid", "nanoidFn", "import_arrow")

ImportArrow == InitAwait("import_arrow", "arrow", "pipeline")

LoadPipeline == InitAwait("pipeline", "embedder", "connect")

Connect == InitAwait("connect", "db", "tableNames")

\* await db.tableNames(), and the synchronous code up to the next await
TableNames ==
  /\ initPc = "tableNames"
  /\ \/ /\ tableExists
        /\ initPc' = "openTable"
        /\ UNCHANGED <<handles, dummyData, notified, tableExists, rows>>
     \/ /\ ~tableExists
        /\ dummyData' =
             <<Row(DummyId, "dummy_text_init", DummyVector, now)>>
        /\ initPc' = "createTable"
        /\ UNCHANGED <<handles, notified, tableExists, rows>>
     \/ InitCatch
  /\ UNCHANGED <<mainWindow, now, idsUsed>> /\ Silent

\* table = await db.openTable(TABLE_NAME), then the success notification
OpenTable ==
  /\ initPc = "openTable"
  /\ \/ /\ handles' = handles \cup {"table"}
        /\ initPc' = "done"
        /\ Send("initialization-success")
        /\ UNCHANGED <<dummyData, tableExists, rows>>
     \/ InitCatch
  /\ UNCHANGED <<mainWindow, now, idsUsed>> /\ Silent

\* table = await db.createTable(TABLE_NAME, dummyData)
CreateTable ==
  /\ initPc = "createTable"
  /\ \/ /\ tableExists' = TRUE
        /\ rows' = dummyData
        /\ handles' = handles \cup {"table"}
        /\ initPc' = "deleteDummy"
        /\ UNCHANGED <<dummyData, notified>>
     \/ InitCatch
  /\ UNCHANGED <<mainWindow, now, idsUsed>> /\ Silent

\* await table.delete('id = "dummy_id_init"'), then the success notification
DeleteDummy ==
  /\ initPc = "deleteDummy"
  /\ \/ /\ rows' = TableDelete(rows, DummyId)
        /\ initPc' = "done"
        /\ Send("initialization-success")
        /\ UNCHANGED <<handles, dummyData, tableExists>>
     \/ InitCatch
  /\ UNCHANGED <<mainWindow, now, idsUsed>> /\ Silent

initializeApp ==
  \/ ImportTransformers
  \/ ImportVectordb
  \/ ImportNanoid
  \/ ImportArrow
  \/ LoadPipeline
  \/ Connect
  \/ TableNames
  \/ OpenTable
  \/ CreateTable
  \/ DeleteDummy

(***************************************************************************)
(* The window and the clock.                                               *)
(***************************************************************************)
\* mainWindow.on("closed"): mainWindow = null
WindowClosed ==
  /\ mainWindow
  /\ mainWindow' = FALSE
  /\ reqs' = [s \in Slots |-> IF reqs[s].pc # "idle"
                              THEN [reqs[s] EXCEPT !.orphan = TRUE]
                              ELSE reqs[s]]
  /\ resp' = NoResp
  /\ dismissed' = NoDismissal
  /\ UNCHANGED <<initVars, tableExists, rows, now, idsUsed, raced, prev,
                 issued, ui>>

\* an activate that creates the window and drops the store handles
ActivateResetting ==
  /\ ~mainWindow
  /\ mainWindow' = TRUE
  /\ handles' = {}
  /\ ui' = InitialUi
  /\ resp' = NoResp
  /\ dismissed' = NoDismissal
  /\ UNCHANGED <<initPc, dummyData, notified, tableExists, rows, now, idsUsed,
                 reqs, raced, prev, issued>>

\* app.on("activate"): createWindow() when mainWindow === null; the new
\* window loads index.html
Activate ==
  /\ ~mainWindow
  /\ mainWindow' = TRUE
  /\ ui' = InitialUi
  /\ resp' = NoResp
  /\ dismissed' = NoDismissal
  /\ UNCHANGED <<initVars, tableExists, rows, now, idsUsed, reqs, raced, prev,
                 issued>>

\* app.on("window-all-closed") where the platform is not darwin: app.quit();
\* the application is then started again on the same directory, and
\* app.on("ready") creates the window and calls initializeApp.  What is on
\* disk stays; the handlers that were suspended are gone with the process.
Relaunch ==
  /\ ~mainWindow
  /\ initPc' = "import_transformers"
  /\ handles' = {}
  /\ dummyData' = <<>>
  /\ mainWindow' = TRUE
  /\ notified' = <<>>
  /\ reqs' = [s \in Slots |-> Idle]
  /\ resp' = NoResp
  /\ prev' = Summary(NoResp)
  /\ dismissed' = NoDismissal
  /\ ui' = InitialUi
  /\ UNCHANGED <<tableExists, rows, now, idsUsed, raced, issued>>

\* time passes: Date.now() reaches t
Tick(t) ==
  /\ t > now
  /\ now' = t
  /\ UNCHANGED <<initVars, mainWindow, tableExists, rows, idsUsed>>
  /\ Silent

(***************************************************************************)
(* Requests: what the handlers share.                                      *)
(***************************************************************************)
InFlight(s) == reqs[s].pc # "idle"

Quiet == \A s \in Slots : ~InFlight(s)

\* the slot a new handler invocation is held in
FreeSlot == CHOOSE s \in Slots : ~InFlight(s) /\ \A t \in Slots : t < s => InFlight(t)

\* the ids that suspended add-todo and seed-demo-data handlers have drawn
\* from nanoid and not yet returned
Pending ==
  UNION {{reqs[s].row.id} \cup {reqs[s].acc[k].id : k \in 1..Len(reqs[s].acc)} :
           s \in {t \in Slots : reqs[t].op \in {"add-todo", "seed-demo-data"}}}

\* the ids the renderer can pass: those a response may have shown it, or a
\* string that is no record's id
IdArgs == ({IdName(i) : i \in 1..idsUsed} \ Pending) \cup {UnknownId}

\* a handler invocation at its entry
Request(op) ==
  [Idle EXCEPT !.op = op, !.initAt = initPc]

\* what a response records of the request it answers
Answered(req) ==
  [req EXCEPT !.pc = "idle", !.row = NoItem, !.acc = <<>>, !.today = 0,
              !.daysBack = {}, !.times = {}]

\* a failure result that carries no message
FailureWithoutMessage(req, error) ==
  [req |-> [req EXCEPT !.pc = "idle"], success |-> FALSE, error |-> "",
   item |-> [id |-> req.id, text |-> req.text, timestamp |-> 0],
   list |-> <<>>, count |-> 0, alone |-> TRUE]

\* { success: false, error: error.message }
Failure(req, error) ==
  [req |-> Answered(req), success |-> FALSE, error |-> error, item |-> NoItem,
   list |-> <<>>, count |-> 0, alone |-> TRUE]

\* { success: true, ... }
Success(req, item, list, count) ==
  [req |-> Answered(req), success |-> TRUE, error |-> "", item |-> item, list |-> list,
   count |-> count, alone |-> TRUE]

\* the error messages of the guards at the head of the handlers
DbOrEmbedderNotInitialized == "Database or embedder not initialized."

DbNotInitialized == "Database not initialized."

CoreNotInitialized ==
  "Core components (DB, embedder, nanoid) not initialized."

\* the renderer sends a request: ipcRenderer.invoke
Invoked ==
  /\ issued < MaxRequests
  /\ issued' = issued + 1
  /\ prev' = IF Quiet THEN Summary(resp) ELSE Overlapping
  /\ dismissed' = NoDismissal

\* the handler returns before its first await
Return(response) ==
  /\ Invoked
  /\ resp' = [response EXCEPT !.alone = Quiet]
  /\ ui' = Received(Sent(ui, response.req.op), response)
  /\ UNCHANGED <<reqs, raced>>

\* the handler suspends at its first await
Suspend(req) ==
  /\ Invoked
  /\ \E s \in Slots : ~InFlight(s)
  /\ reqs' = [reqs EXCEPT ![FreeSlot] = req]
  /\ resp' = NoResp
  /\ ui' = Sent(ui, req.op)
  /\ raced' = IF req.op = "update-todo"
                   /\ \E s \in Slots : /\ reqs[s].op = "update-todo"
                                       /\ reqs[s].id = req.id
              THEN raced \cup {req.id}
              ELSE raced

\* the handler of slot s moves on to its next await
Continue(s, req) ==
  /\ reqs' = [reqs EXCEPT ![s] = req]
  /\ resp' = NoResp
  /\ dismissed' = NoDismissal
  /\ UNCHANGED <<raced, prev, issued, ui>>

\* `value || null`
OrNull(value) == IF Truthy(value) THEN value ELSE Null

\* `startDate && endDate && new Date(endDate) < new Date(startDate)`: a
\* comparison with an invalid date is false
EndBeforeStart(startDate, endDate) ==
  /\ Truthy(startDate) /\ Truthy(endDate)
  /\ \E a \in StartOfDayMs(startDate), b \in StartOfDayMs(endDate) : b < a

\* the update listener, on a success: `searchInput.value.trim() &&
\* originalTodoObjectForEdit && newText !== originalTodoObjectForEdit.text`,
\* then searchTodoBtn.click(), which runs the button's listener only if the
\* button is not disabled; the listener sends unless it rejects the dates
RerunsSearch(u, response) ==
  /\ response.req.op = "update-todo" /\ response.success
  /\ Truthy(Trim(u.searchInput))
  /\ u.originalText # Null
  /\ response.req.text # u.originalText
  /\ ~u.searchDisabled
  /\ ~EndBeforeStart(u.startDate, u.endDate)

\* the search-todos invocation searchTodoBtn's listener makes from the
\* search controls, suspended at `await getEmbedding(query)`
ClickedSearch(u) ==
  [Request("search-todos") EXCEPT
     !.query = Trim(u.searchInput), !.startDate = OrNull(u.startDate),
     !.endDate = OrNull(u.endDate), !.pc = "embed", !.emb = 1]

\* the handler of slot s returns, and the code after the renderer's await
\* runs if the window that sent the request is still there
Finish(s, response) ==
  /\ reqs' = [reqs EXCEPT ![s] = IF /\ ~response.req.orphan
                                    /\ RerunsSearch(ui, response)
                                 THEN ClickedSearch(ui)
                                 ELSE Idle]
  /\ resp' = [response EXCEPT !.alone = prev.alone]
  /\ dismissed' = NoDismissal
  /\ ui' = IF response.req.orphan THEN ui ELSE Received(ui, response)
  /\ UNCHANGED <<raced, prev, issued>>

\* the catch block of a handler: the awaited call threw
Catch(s, error) ==
  /\ Finish(s, Failure(reqs[s], error))
  /\ UNCHANGED <<rows, idsUsed>>

\* a handler that resumes only once no other handler is suspended
AtAlone(s, op, pc) ==
  /\ reqs[s].op = op
  /\ reqs[s].pc = pc
  /\ \A t \in Slots \ {s} : reqs[t].op = "idle"

\* the handler invocation of slot s is suspended at the await pc of op
At(s, op, pc) == reqs[s].op = op /\ reqs[s].pc = pc

\* getEmbedding(text), called with the embedder set
getEmbedding(text) == Embed(text)

\* a generator that returns the same identifier every time
nanoidRepeats == IdName(1)

\* nanoidFn(): the next identifier
nanoidFn == IdName(idsUsed + 1)

(***************************************************************************)
(* add-todo.                                                               *)
(***************************************************************************)
AddTodo(todoText) ==
  /\ mainWindow
  /\ LET req == [Request("add-todo") EXCEPT !.text = todoText] IN
     IF "table" \notin handles \/ "embedder" \notin handles
     THEN Return(Failure(req, DbOrEmbedderNotInitialized))
     ELSE Suspend([req EXCEPT !.pc = "embed", !.emb = 1])
  /\ UNCHANGED <<initVars, mainWindow, tableExists, rows, now, idsUsed>>

\* resumes from `await getEmbedding(todoText)`
AddTodoEmbedded(s) ==
  /\ At(s, "add-todo", "embed")
  /\ \/ Catch(s, "embedding failed")
     \/ Catch(s, "nanoid failed")
     \/ /\ idsUsed' = idsUsed + 1
        /\ Continue(s, [reqs[s] EXCEPT
                          !.row = Row(nanoidFn, reqs[s].text,
                                      getEmbedding(reqs[s].text), now),
                          !.pc = "add", !.tbl = 1])
        /\ UNCHANGED rows
  /\ UNCHANGED <<initVars, mainWindow, tableExists, now>>

\* resumes from `await table.add([todoItem])`
AddTodoAdded(s) ==
  /\ At(s, "add-todo", "add")
  /\ \/ Catch(s, "table.add failed")
     \/ /\ rows' = TableAdd(rows, <<reqs[s].row>>)
        /\ Finish(s, Success(reqs[s], Item(reqs[s].row), <<>>, 0))
        /\ UNCHANGED idsUsed
  /\ UNCHANGED <<initVars, mainWindow, tableExists, now>>

(***************************************************************************)
(* get-todos.                                                              *)
(***************************************************************************)
Min(a, b) == IF a < b THEN a ELSE b

\* the elements of seq at the positions in S, in the order of seq
Pick(seq, S) ==
  [k \in 1..Cardinality(S) |->
     seq[CHOOSE i \in S : Cardinality({j \in S : j < i}) = k - 1]]

\* table.search().limit(n).execute(): up to n rows; which rows the table
\* returns when it holds more is not specified by the table layer
Scan(rs, n) ==
  {Pick(rs, S) : S \in {T \in SUBSET (1..Len(rs)) :
                          Cardinality(T) = Min(n, Len(rs))}}

\* results.map((r) => ({ id: r.id, text: r.text, timestamp: r.timestamp }))
Items(results) == [k \in 1..Len(results) |-> Item(results[k])]

\* a stable sort: seq in ascending order of the keys, keys[i] being the key
\* of seq[i], elements of equal key in the order they had
Sort(seq, keys) ==
  LET Rank(i) ==
        Cardinality({j \in 1..Len(seq) :
                       \/ keys[j] < keys[i]
                       \/ keys[j] = keys[i] /\ j < i})
  IN [k \in 1..Len(seq) |-> seq[CHOOSE i \in 1..Len(seq) : Rank(i) = k - 1]]

\* a list left in the order the table returned it
NewestFirstUnsorted(seq) == seq

\* .sort((a, b) => b.timestamp - a.timestamp)
NewestFirst(seq) ==
  Sort(seq, [i \in 1..Len(seq) |-> 0 - seq[i].timestamp])

GetTodos ==
  /\ mainWindow
  /\ LET req == Request("get-todos") IN
     IF "table" \notin handles
     THEN Return(Failure(req, DbNotInitialized))
     ELSE Suspend([req EXCEPT !.pc = "execute", !.tbl = 1])
  /\ UNCHANGED <<initVars, mainWindow, tableExists, rows, now, idsUsed>>

\* resumes from `await table.search().limit(500).select(...).execute()`
GetTodosExecuted(s) ==
  /\ At(s, "get-todos", "execute")
  /\ \/ Catch(s, "execute failed")
     \/ /\ \E results \in Scan(rows, LIST_LIMIT) :
             Finish(s, Success(reqs[s], NoItem,
                               NewestFirst(Items(results)), 0))
        /\ UNCHANGED <<rows, idsUsed>>
  /\ UNCHANGED <<initVars, mainWindow, tableExists, now>>

(***************************************************************************)
(* search-todos.                                                           *)
(***************************************************************************)
\* `!query || query === ""`: the test without the trim
EmptyQueryUntrimmed(query) == query = Null \/ query = ""

\* `!query || query.trim() === ""`
EmptyQuery(query) == query = Null \/ query = "" \/ Trim(query) = ""

\* the bound each date argument contributes: a set with the bound, empty
\* when the argument is falsy or does not parse (isNaN)
StartBound(startDate) ==
  IF Truthy(startDate) THEN StartOfDayMs(startDate) ELSE {}

EndBound(endDate) == IF Truthy(endDate) THEN EndOfDayMs(endDate) ELSE {}

\* the filter with exclusive bounds: `timestamp > start AND timestamp < end`
WhereExclusive(r, startDate, endDate) ==
  /\ \A t \in StartBound(startDate) : r.timestamp > t
  /\ \A t \in EndBound(endDate) : r.timestamp < t

\* the filter without the isNaN tests: a comparison with NaN holds for no row
WhereUnchecked(r, startDate, endDate) ==
  /\ Truthy(startDate) => \E t \in StartOfDayMs(startDate) : r.timestamp >= t
  /\ Truthy(endDate) => \E t \in EndOfDayMs(endDate) : r.timestamp <= t

\* the filters joined with OR: `timestamp >= start OR timestamp <= end`
WhereEither(r, startDate, endDate) ==
  \/ StartBound(startDate) = {} /\ EndBound(endDate) = {}
  \/ \E t \in StartBound(startDate) : r.timestamp >= t
  \/ \E t \in EndBound(endDate) : r.timestamp <= t

\* filters.join(" AND ") applied to a row
Where(r, startDate, endDate) ==
  /\ \A t \in StartBound(startDate) : r.timestamp >= t
  /\ \A t \in EndBound(endDate) : r.timestamp <= t

\* the first n elements
Take(seq, n) == SubSeq(seq, 1, Min(n, Len(seq)))

\* a search that leaves the rows in storage order
NearestUnsorted(rs, queryVector) == rs

\* the rows ordered by distance to the query vector, closest first
Nearest(rs, queryVector) ==
  Sort(rs, [i \in 1..Len(rs) |-> Distance(rs[i].vector, queryVector)])

\* table.search(queryVector).where(...).limit(10).execute(): the filter is
\* applied before the nearest rows are taken (prefilter) or after
Search(rs, queryVector, startDate, endDate, prefilter) ==
  LET Keep(r) == Where(r, startDate, endDate) IN
  IF prefilter
  THEN Take(Nearest(SelectSeq(rs, Keep), queryVector), SEARCH_LIMIT)
  ELSE SelectSeq(Take(Nearest(rs, queryVector), SEARCH_LIMIT), Keep)

\* searchResultsRaw.map(r => ({ id, text, timestamp, score: r._distance }))
SearchResults(raw, queryVector) ==
  [k \in 1..Len(raw) |->
     [id |-> raw[k].id, text |-> raw[k].text, timestamp |-> raw[k].timestamp,
      score |-> Distance(raw[k].vector, queryVector)]]

SearchTodos(query, startDate, endDate) ==
  /\ mainWindow
  /\ LET req == [Request("search-todos") EXCEPT
                   !.query = query, !.startDate = startDate,
                   !.endDate = endDate] IN
     IF "table" \notin handles \/ "embedder" \notin handles
     THEN Return(Failure(req, DbOrEmbedderNotInitialized))
     ELSE IF EmptyQuery(query)
     THEN Return(Success(req, NoItem, <<>>, 0))
     ELSE Suspend([req EXCEPT !.pc = "embed", !.emb = 1])
  /\ UNCHANGED <<initVars, mainWindow, tableExists, rows, now, idsUsed>>

\* resumes from `await getEmbedding(query)`
SearchTodosEmbedded(s) ==
  /\ At(s, "search-todos", "embed")
  /\ \/ Catch(s, "embedding failed")
     \/ /\ Continue(s, [reqs[s] EXCEPT !.pc = "execute", !.tbl = 1])
        /\ UNCHANGED <<rows, idsUsed>>
  /\ UNCHANGED <<initVars, mainWindow, tableExists, now>>

\* resumes from `await lanceQuery.limit(10).select(...).execute()`
SearchTodosExecuted(s) ==
  /\ At(s, "search-todos", "execute")
  /\ \/ Catch(s, "execute failed")
     \/ /\ \E prefilter \in BOOLEAN :
             LET queryVector == getEmbedding(reqs[s].query) IN
             Finish(s, Success(reqs[s], NoItem,
                      SearchResults(Search(rows, queryVector,
                                           reqs[s].startDate,
                                           reqs[s].endDate, prefilter),
                                    queryVector), 0))
        /\ UNCHANGED <<rows, idsUsed>>
  /\ UNCHANGED <<initVars, mainWindow, tableExists, now>>

(***************************************************************************)
(* seed-demo-data.                                                         *)
(***************************************************************************)
\* Math.floor(Math.random() * 90): how many days before today a record is
\* dated
SeedDaysBack == 0..(SEED_DAYS - 1)

\* the random time of day setHours gives a record: the first and the last
\* millisecond of the day stand for all
SeedTimes == {0, MsPerDay - 1}

\* randomPastDay.getTime(): one of the days back from today, at one of the
\* times of day
SeedTimestamps(today, daysBack, times) ==
  {(DayOf(today) - k) * MsPerDay + ms : k \in daysBack, ms \in times}

\* daysBack and times are the values Math.random() can yield while this
\* handler runs
SeedDemoData(daysBack, times) ==
  /\ mainWindow
  /\ LET req == [Request("seed-demo-data") EXCEPT
                   !.daysBack = daysBack, !.times = times] IN
     IF \/ "table" \notin handles
        \/ "embedder" \notin handles
        \/ "nanoidFn" \notin handles
     THEN Return(Failure(req, CoreNotInitialized))
     ELSE Suspend([req EXCEPT !.pc = "embed", !.emb = 1, !.today = now,
                              !.text = DemoText])
  /\ UNCHANGED <<initVars, mainWindow, tableExists, rows, now, idsUsed>>

\* resumes from `await getEmbedding(text)` in the loop body
SeedDemoDataEmbedded(s) ==
  /\ At(s, "seed-demo-data", "embed")
  /\ \/ Catch(s, "embedding failed")
     \/ Catch(s, "nanoid failed")
     \/ /\ idsUsed' = idsUsed + 1
        /\ \E timestamp \in SeedTimestamps(reqs[s].today, reqs[s].daysBack,
                                         reqs[s].times) :
             LET demoTodos ==
                   Append(reqs[s].acc,
                          Row(nanoidFn, reqs[s].text,
                              getEmbedding(reqs[s].text), timestamp))
             IN Continue(s, IF Len(demoTodos) < NUM_ITEMS
                            THEN [reqs[s] EXCEPT !.acc = demoTodos,
                                                 !.emb = @ + 1]
                            ELSE [reqs[s] EXCEPT !.acc = demoTodos,
                                                 !.pc = "add", !.tbl = 1])
        /\ UNCHANGED rows
  /\ UNCHANGED <<initVars, mainWindow, tableExists, now>>

\* resumes from `await table.add(demoTodos)`
SeedDemoDataAdded(s) ==
  /\ At(s, "seed-demo-data", "add")
  /\ \/ Catch(s, "table.add failed")
     \/ /\ rows' = TableAdd(rows, reqs[s].acc)
        /\ Finish(s, Success(reqs[s], NoItem, <<>>, Len(reqs[s].acc)))
        /\ UNCHANGED idsUsed
  /\ UNCHANGED <<initVars, mainWindow, tableExists, now>>

(***************************************************************************)
(* update-todo.                                                            *)
(***************************************************************************)
\* an update-todo that deletes the record before it computes the embedding
UpdateTodoDeletingFirst(todoId, newText) ==
  /\ mainWindow
  /\ LET req == [Request("update-todo") EXCEPT
                   !.id = todoId, !.text = newText,
                   !.found = CountId(rows, todoId)] IN
     IF "table" \notin handles \/ "embedder" \notin handles
     THEN Return(Failure(req, DbOrEmbedderNotInitialized)) /\ rows' = rows
     ELSE /\ Suspend([req EXCEPT !.pc = "embed", !.emb = 1])
          /\ rows' = TableDelete(rows, todoId)
  /\ UNCHANGED <<initVars, mainWindow, tableExists, now, idsUsed>>

UpdateTodo(todoId, newText) ==
  /\ mainWindow
  /\ LET req == [Request("update-todo") EXCEPT
                   !.id = todoId, !.text = newText,
                   !.found = CountId(rows, todoId)] IN
     IF "table" \notin handles \/ "embedder" \notin handles
     THEN Return(Failure(req, DbOrEmbedderNotInitialized))
     ELSE Suspend([req EXCEPT !.pc = "embed", !.emb = 1])
  /\ UNCHANGED <<initVars, mainWindow, tableExists, rows, now, idsUsed>>

\* resumes from `await getEmbedding(newText)`
UpdateTodoEmbedded(s) ==
  /\ At(s, "update-todo", "embed")
  /\ \/ Catch(s, "embedding failed")
     \/ /\ Continue(s, [reqs[s] EXCEPT
                          !.row = Row(reqs[s].id, reqs[s].text,
                                      getEmbedding(reqs[s].text), now),
                          !.pc = "delete", !.tbl = 1])
        /\ UNCHANGED <<rows, idsUsed>>
  /\ UNCHANGED <<initVars, mainWindow, tableExists, now>>

\* resumes from `await table.delete(`id = "${todoId}"`)`
UpdateTodoDeleted(s) ==
  /\ At(s, "update-todo", "delete")
  /\ \/ Catch(s, "table.delete failed")
     \/ /\ rows' = TableDelete(rows, reqs[s].id)
        /\ Continue(s, [reqs[s] EXCEPT !.pc = "add", !.tbl = 2])
        /\ UNCHANGED idsUsed
  /\ UNCHANGED <<initVars, mainWindow, tableExists, now>>

\* resumes from `await table.add([updatedTodoItemData])`
UpdateTodoAdded(s) ==
  /\ At(s, "update-todo", "add")
  /\ \/ Catch(s, "table.add failed")
     \/ /\ rows' = TableAdd(rows, <<reqs[s].row>>)
        /\ Finish(s, Success(reqs[s], Item(reqs[s].row), <<>>, 0))
        /\ UNCHANGED idsUsed
  /\ UNCHANGED <<initVars, mainWindow, tableExists, now>>

(***************************************************************************)
(* delete-todo.                                                            *)
(***************************************************************************)
DeleteTodo(todoId) ==
  /\ mainWindow
  /\ LET req == [Request("delete-todo") EXCEPT
                   !.id = todoId, !.found = CountId(rows, todoId)] IN
     IF "table" \notin handles
     THEN Return(Failure(req, DbNotInitialized))
     ELSE Suspend([req EXCEPT !.pc = "delete", !.tbl = 1])
  /\ UNCHANGED <<initVars, mainWindow, tableExists, rows, now, idsUsed>>

\* resumes from `await table.delete(`id = "${todoId}"`)`
DeleteTodoDeleted(s) ==
  /\ At(s, "delete-todo", "delete")
  /\ \/ Catch(s, "table.delete failed")
     \/ /\ rows' = TableDelete(rows, reqs[s].id)
        /\ Finish(s, Success(reqs[s], [NoItem EXCEPT !.id = reqs[s].id],
                             <<>>, 0))
        /\ UNCHANGED idsUsed
  /\ UNCHANGED <<initVars, mainWindow, tableExists, now>>

(***************************************************************************)
(* The renderer's click listeners for the add and the update button.       *)
(***************************************************************************)
\* what the user may have typed into todoInput
TypedValues == {"", " "} \cup Texts

\* the text of originalTodoObjectForEdit: null outside edit mode
OriginalTexts == {Null} \cup Texts

\* the values of editingTodoIdInput: empty outside edit mode
EditingIds == IdArgs \cup {""}

\* a listener returns without calling the main process
Dismiss(click, value, alert) ==
  /\ mainWindow
  /\ dismissed' = [click |-> click, value |-> value, alert |-> alert]
  /\ resp' = NoResp
  /\ ui' = IF click = "updateTodoBtn" THEN exitEditMode(ui) ELSE ui
  /\ UNCHANGED <<initVars, mainWindow, tableExists, rows, now, idsUsed, reqs,
                 raced, prev, issued>>

\* a step of the renderer alone that leaves the controls as u
Local(u) ==
  /\ mainWindow
  /\ ui' = u
  /\ resp' = NoResp
  /\ dismissed' = NoDismissal
  /\ UNCHANGED <<initVars, mainWindow, tableExists, rows, now, idsUsed, reqs,
                 raced, prev, issued>>

\* the add listener testing the value as typed
AddTodoClickUntrimmed(value) ==
  IF Truthy(value) THEN AddTodo(value) ELSE Dismiss("addTodoBtn", value, "")

\* addTodoBtn's listener: `const text = todoInput.value.trim(); if (text)`
AddTodoClick(value) ==
  LET text == Trim(value) IN
    IF Truthy(text) THEN AddTodo(text) ELSE Dismiss("addTodoBtn", value, "")

\* an update listener that does not compare the text with the original
UpdateTodoClickUncompared(todoId, value, originalText) ==
  LET newText == Trim(value) IN
    IF ~Truthy(todoId) \/ ~Truthy(newText)
    THEN Dismiss("updateTodoBtn", value,
                 "Error: Todo ID or text is missing for update.")
    ELSE UpdateTodo(todoId, newText)

\* updateTodoBtn's listener, up to the call of updateTodo
UpdateTodoClick(todoId, value, originalText) ==
  LET newText == Trim(value) IN
    IF ~Truthy(todoId) \/ ~Truthy(newText)
    THEN Dismiss("updateTodoBtn", value,
                 "Error: Todo ID or text is missing for update.")
    ELSE IF Truthy(originalText) /\ newText = originalText
    THEN Dismiss("updateTodoBtn", value, "No changes made to the todo text.")
    ELSE UpdateTodo(todoId, newText)

\* addTodoToDOM: the list, read from the top, after the item's element is
\* inserted: search results are appended, todos of the main list prepended
addTodoToDOM(list, todo, isSearchResult) ==
  IF isSearchResult THEN Append(list, todo) ELSE <<todo>> \o list

\* `result.todos.forEach((todo) => addTodoToDOM(todo, false))` on todoList
RECURSIVE forEachTodo(_, _)
forEachTodo(todos, todoList) ==
  IF todos = <<>> THEN todoList
  ELSE forEachTodo(Tail(todos), addTodoToDOM(todoList, Head(todos), FALSE))

\* the main list fetchTodos leaves on screen for a successful result:
\* cleared, then filled from result.todos
fetchTodos(result) == forEachTodo(result.list, <<>>)

\* the values the date inputs may hold
DateValues == {"", DayNames[1], DayNames[2]}

\* what the user may have typed into searchInput
SearchValues == {"", "a"}

\* the user replaces what the input field holds
TypeTodo(value) ==
  /\ ~ui.inputDisabled
  /\ value # ui.todoInput
  /\ Local([ui EXCEPT !.todoInput = value])

\* a click on the Edit button of an item: enterEditMode(todo.id, todo.text,
\* ...), which alerts and returns while an edit is open
EditClick(todoId, currentText) ==
  /\ mainWindow
  /\ todoId \in Clickable(ui)
  /\ ui' = enterEditMode(ui, todoId, currentText)
  /\ dismissed' =
       IF ui.editingTodoId # ""
       THEN [click |-> "editButton", value |-> todoId,
             alert |-> "Already editing another todo. Please finish or cancel that edit first."]
       ELSE NoDismissal
  /\ resp' = NoResp
  /\ UNCHANGED <<initVars, mainWindow, tableExists, rows, now, idsUsed, reqs,
                 raced, prev, issued>>

\* cancelEditBtn's listener; the button is hidden outside edit mode
CancelEditClick ==
  /\ ~ui.cancelHidden
  /\ Local(exitEditMode(ui))

\* a click on updateTodoBtn, which is hidden outside edit mode
UpdateTodoBtnClick ==
  /\ ~ui.updateHidden
  /\ UpdateTodoClick(ui.editingTodoId, ui.todoInput, ui.originalText)

\* a click on addTodoBtn, which is hidden in edit mode
AddTodoBtnClick ==
  /\ ~ui.addHidden
  /\ ~ui.inputDisabled
  /\ AddTodoClick(ui.todoInput)

\* a delete listener that sends whatever is being edited
handleDeleteTodoUnchecked(todoId) ==
  /\ todoId \in Clickable(ui)
  /\ DeleteTodo(todoId)

\* handleDeleteTodo(todoId), the user confirming: a click on an item's
\* Delete button
handleDeleteTodo(todoId) ==
  /\ todoId \in Clickable(ui)
  /\ IF ui.editingTodoId = todoId
     THEN Dismiss("deleteButton", todoId,
                  "Cannot delete a todo that is currently being edited. Please cancel editing first.")
     ELSE DeleteTodo(todoId)

\* the tabs of the window
Tabs == {"todos-tab", "search-results-tab"}

\* a click on a tab button, which takes no click while its pointerEvents
\* are "none"
TabClick(tab) ==
  /\ ~ui.tabsDisabled
  /\ tab # ui.activeTab
  /\ IF ui.editingTodoId # ""
     THEN Dismiss("tabButton", tab,
                  "Please finish or cancel your current edit before switching tabs.")
     ELSE Local([ui EXCEPT !.activeTab = tab])

\* seedDataBtn's listener, the user confirming; the button is disabled
\* while a seed-demo-data is awaited
SeedDataBtnClick ==
  /\ ~ui.inputDisabled
  /\ \A s \in Slots : reqs[s].op # "seed-demo-data"
  /\ IF ui.editingTodoId # ""
     THEN Dismiss("seedDataBtn", "",
                  "Please finish or cancel your current edit before seeding data.")
     ELSE SeedDemoData({0}, {0})

\* the get-todos of a fetchTodos() that has been called reaches the main
\* process
FetchTodos ==
  /\ ui.pendingFetch
  /\ GetTodos

\* the user fills in the search box and the date inputs
TypeSearch(value, startDate, endDate) ==
  /\ ~ui.searchDisabled
  /\ Local([ui EXCEPT !.searchInput = value, !.startDate = startDate,
                      !.endDate = endDate])

\* a search listener that sends whatever the dates are
SearchTodoBtnClickUnchecked ==
  /\ ~ui.searchDisabled
  /\ SearchTodos(Trim(ui.searchInput), OrNull(ui.startDate),
                 OrNull(ui.endDate))

\* searchTodoBtn's listener
SearchTodoBtnClick ==
  /\ ~ui.searchDisabled
  /\ IF EndBeforeStart(ui.startDate, ui.endDate)
     THEN Dismiss("searchTodoBtn", ui.endDate,
                  "End date cannot be before start date.")
     ELSE SearchTodos(Trim(ui.searchInput), OrNull(ui.startDate),
                      OrNull(ui.endDate))

(***************************************************************************)
(* The specifications.                                                     *)
(***************************************************************************)
\* a suspended add-todo or seed-demo-data handler resumes
ResumeCreate ==
  \E s \in Slots :
    \/ AddTodoEmbedded(s)
    \/ AddTodoAdded(s)
    \/ SeedDemoDataEmbedded(s)
    \/ SeedDemoDataAdded(s)

\* a suspended update-todo or delete-todo handler resumes
ResumeChange ==
  \E s \in Slots :
    \/ UpdateTodoEmbedded(s)
    \/ UpdateTodoDeleted(s)
    \/ UpdateTodoAdded(s)
    \/ DeleteTodoDeleted(s)

\* a suspended get-todos handler resumes
ResumeList == \E s \in Slots : GetTodosExecuted(s)

\* a suspended search-todos handler resumes
ResumeSearch ==
  \E s \in Slots :
    \/ SearchTodosEmbedded(s)
    \/ SearchTodosExecuted(s)

\* a suspended handler resumes
Resume ==
  \/ ResumeCreate
  \/ ResumeChange
  \/ ResumeList
  \/ ResumeSearch

\* The state initializeApp leaves behind when it opened an existing, empty
\* table and notified the window.
InitReady ==
  /\ initPc = "done"
  /\ handles =
       {"pipeline", "lancedb", "nanoidFn", "arrow", "embedder", "db", "table"}
  /\ dummyData = <<>>
  /\ mainWindow = TRUE
  /\ notified = <<"initialization-success">>
  /\ tableExists = TRUE
  /\ rows = <<>>
  /\ now = 0
  /\ idsUsed = 0
  /\ reqs = [s \in Slots |-> Idle]
  /\ resp = NoResp
  /\ raced = {}
  /\ prev = Summary(NoResp)
  /\ issued = 0
  /\ dismissed = NoDismissal
  /\ ui = onInitializationSuccess(InitialUi)

\* The window of the initialized store once the fetchTodos() of its
\* initialization-success callback has listed the empty table.
InitListed ==
  /\ initPc = "done"
  /\ handles =
       {"pipeline", "lancedb", "nanoidFn", "arrow", "embedder", "db", "table"}
  /\ dummyData = <<>>
  /\ mainWindow = TRUE
  /\ notified = <<"initialization-success">>
  /\ tableExists = TRUE
  /\ rows = <<>>
  /\ now = 0
  /\ idsUsed = 0
  /\ reqs = [s \in Slots |-> Idle]
  /\ resp = NoResp
  /\ raced = {}
  /\ prev = Summary(NoResp)
  /\ issued = 0
  /\ dismissed = NoDismissal
  /\ ui = Received(Sent(onInitializationSuccess(InitialUi), "get-todos"),
                   Success(Request("get-todos"), NoItem, <<>>, 0))

\* seed-demo-data has not been invoked, or has failed
NotSeeded ==
  /\ \A i \in 1..Len(rows) : rows[i].text # DemoText
  /\ \A s \in Slots : reqs[s].op # "seed-demo-data"

\* Start-up: initializeApp and the window events, with requests arriving at
\* any point of it, at one instant of the clock.  seed-demo-data dates its
\* records at the first millisecond of today.
Next ==
  \/ initializeApp
  \/ WindowClosed
  \/ Activate
  \/ Relaunch
  \/ Resume
  \/ Quiet /\ AddTodo("a")
  \/ Quiet /\ GetTodos
  \/ Quiet /\ \E query \in {"", "a"} : SearchTodos(query, Null, Null)
  \/ Quiet /\ NotSeeded /\ SeedDemoData({0}, {0})
  \/ Quiet /\ \E todoId \in IdArgs : UpdateTodo(todoId, "b")
  \/ Quiet /\ \E todoId \in IdArgs : DeleteTodo(todoId)

Spec == Init /\ [][Next]_vars

\* The window's life while and after initializeApp runs: the window is
\* closed, created again or the application started again, and the
\* fetchTodos() of the window's initialization-success callback lists the
\* table.  Every call that initializeApp or get-todos awaits returns or
\* throws in the end.
NextWindow ==
  \/ initializeApp
  \/ WindowClosed
  \/ Activate
  \/ Relaunch
  \/ FetchTodos
  \/ ResumeList

SpecWindow ==
  /\ Init
  /\ [][NextWindow]_vars
  /\ WF_vars(initializeApp)
  /\ WF_vars(ResumeList)

\* The initialized store with writers that overlap: add-todo, update-todo,
\* delete-todo and seed-demo-data, at one instant of the clock.
\* seed-demo-data dates its records at the first millisecond of today.
NextRace ==
  \/ ResumeCreate
  \/ ResumeChange
  \/ AddTodo("a")
  \/ NotSeeded /\ SeedDemoData({0}, {0})
  \/ \E todoId \in IdArgs : UpdateTodo(todoId, "b")
  \/ \E todoId \in IdArgs : DeleteTodo(todoId)

SpecRace == InitReady /\ [][NextRace]_vars

\* the handler invocation of slot s resumes from the await it is suspended at
Settle(s) ==
  \/ AddTodoEmbedded(s)
  \/ AddTodoAdded(s)
  \/ GetTodosExecuted(s)
  \/ SearchTodosEmbedded(s)
  \/ SearchTodosExecuted(s)
  \/ SeedDemoDataEmbedded(s)
  \/ SeedDemoDataAdded(s)
  \/ UpdateTodoEmbedded(s)
  \/ UpdateTodoDeleted(s)
  \/ UpdateTodoAdded(s)
  \/ DeleteTodoDeleted(s)

\* The initialized store with requests of every kind that overlap, where
\* every call of the embedder and of the table that a handler awaits
\* returns or throws in the end.
NextLive ==
  \/ \E s \in Slots : Settle(s)
  \/ AddTodo("a")
  \/ GetTodos
  \/ SearchTodos("a", Null, Null)
  \/ NotSeeded /\ SeedDemoData({0}, {0})
  \/ \E todoId \in IdArgs : UpdateTodo(todoId, "b")
  \/ \E todoId \in IdArgs : DeleteTodo(todoId)

SpecLive ==
  /\ InitReady
  /\ [][NextLive]_vars
  /\ \A s \in Slots : WF_vars(Settle(s))

\* The initialized store with a renderer that awaits each response before it
\* sends the next request, while time passes.  seed-demo-data dates its
\* records at the first millisecond of today.
NextStore ==
  \/ Tick(MsPerDay - 1)
  \/ ResumeCreate
  \/ ResumeChange
  \/ ResumeList
  \/ Quiet /\ \E todoText \in Texts : AddTodo(todoText)
  \/ Quiet /\ GetTodos
  \/ Quiet /\ NotSeeded /\ SeedDemoData({0}, {0})
  \/ Quiet /\ \E todoId \in IdArgs, newText \in Texts :
                UpdateTodo(todoId, newText)
  \/ Quiet /\ \E todoId \in IdArgs : DeleteTodo(todoId)

SpecStore == InitReady /\ [][NextStore]_vars

\* The initialized store driven through the window: todos are added and
\* updated by clicks on the add and the update button, with whatever the
\* input field holds.
NextClick ==
  \/ ResumeCreate
  \/ ResumeChange
  \/ Quiet /\ \E value \in TypedValues : AddTodoClick(value)
  \/ Quiet /\ NotSeeded /\ SeedDemoData({0}, {0})
  \/ Quiet /\ \E todoId \in EditingIds, value \in TypedValues,
                  originalText \in OriginalTexts :
                UpdateTodoClick(todoId, value, originalText)
  \/ Quiet /\ \E todoId \in IdArgs : DeleteTodo(todoId)

SpecClick == InitReady /\ [][NextClick]_vars

\* The initialized store driven through the window's controls, edit mode
\* included.  A second click on the update or a delete button need not wait
\* for the reply to the first.
NextEdit ==
  \/ ResumeCreate
  \/ ResumeChange
  \/ ResumeList
  \/ ResumeSearch
  \/ \E value \in TypedValues : TypeTodo(value)
  \/ Quiet /\ AddTodoBtnClick
  \/ FetchTodos
  \/ Quiet /\ NotSeeded /\ SeedDataBtnClick
  \/ \E todoId \in IdArgs, currentText \in Texts :
       EditClick(todoId, currentText)
  \/ CancelEditClick
  \/ UpdateTodoBtnClick
  \/ \E todoId \in IdArgs : handleDeleteTodo(todoId)
  \/ \E value \in SearchValues : TypeSearch(value, "", "")
  \/ Quiet /\ SearchTodoBtnClick
  \/ \E tab \in Tabs : TabClick(tab)

SpecEdit == InitListed /\ [][NextEdit]_vars

\* The search controls of the window on the initialized store: the user
\* fills in the query and the dates, and clicks the search button.
NextDates ==
  \/ \E value \in SearchValues, startDate \in DateValues,
        endDate \in DateValues : TypeSearch(value, startDate, endDate)
  \/ SearchTodoBtnClick
  \/ ResumeSearch

SpecDates == InitReady /\ [][NextDates]_vars

\* The initialized store searched with every kind of query and date bound,
\* over records that add-todo and seed-demo-data created on several days,
\* seed-demo-data dating its records at the first or the last millisecond of
\* today or of a day before.
NextSearch ==
  \/ \E d \in Days : Tick(d * MsPerDay)
  \/ ResumeCreate
  \/ ResumeSearch
  \/ Quiet /\ AddTodo("a")
  \/ Quiet /\ NotSeeded /\ SeedDemoData(SeedDaysBack, SeedTimes)
  \/ Quiet /\ \E query \in Queries, date \in {Null, DayNames[1]} :
                SearchTodos(query, date, date)
  \/ Quiet /\ \E startDate \in DateArgs, endDate \in DateArgs :
                SearchTodos("a", startDate, endDate)

SpecSearch == InitReady /\ [][NextSearch]_vars

(***************************************************************************)
(* Properties.                                                             *)
(***************************************************************************)
\* the latest step delivered the response to a request of this kind
Responded(op) == resp.req.op = op

\* the latest step delivered a get-todos success, to a request sent right
\* after the success of a request of kind op was delivered, no other request
\* being in flight at any time from the start of that one
ListedAfter(op) ==
  /\ Responded("get-todos") /\ resp.success /\ resp.alone
  /\ prev.op = op /\ prev.success /\ prev.alone

\* the entries of a returned list that carry this id
Entries(list, id) == {k \in 1..Len(list) : list[k].id = id}

\* the errors that say "not initialized"
NotInitializedErrors ==
  {DbOrEmbedderNotInitialized, DbNotInitialized, CoreNotInitialized}

\* the messages of the errors the embedder, nanoid or the table throws
Thrown ==
  {"embedding failed", "nanoid failed", "execute failed", "table.add failed",
   "table.delete failed"}

\* C1, as claimed: in every reachable state of the table, under any
\* interleaving of add-todo, update-todo, delete-todo and seed-demo-data, no
\* two rows share an id.
C1_UniqueIdsAnyInterleaving ==
  \A i, j \in 1..Len(rows) : i # j => rows[i].id # rows[j].id

\* C1, amended: two rows share an id only if two update-todo executions for
\* that id have overlapped; under every other interleaving of the four
\* writers ids are unique.
C1_UniqueIdsUnlessUpdatesOverlap ==
  \A i, j \in 1..Len(rows) :
    i # j /\ rows[i].id = rows[j].id => rows[i].id \in raced

\* an update-todo that overlapped another writer has succeeded, no two
\* updates of one id have overlapped, and the table holds several rows
C1_Witness ==
  /\ Responded("update-todo") /\ resp.success /\ ~resp.alone
  /\ resp.req.found = 1
  /\ raced = {}
  /\ Len(rows) >= 2

\* C2, as claimed: a request handled before initializeApp has finished its
\* last step is answered success:false, "not initialized", and its handler
\* calls neither the embedder nor the table (so it is never suspended).
C2_RejectedUntilInitDone ==
  /\ \A s \in Slots : InFlight(s) => reqs[s].initAt \in {"done", "failed"}
  /\ resp # NoResp /\ resp.req.initAt \notin {"done", "failed"} =>
       /\ ~resp.success
       /\ resp.error \in NotInitializedErrors
       /\ resp.req.emb = 0 /\ resp.req.tbl = 0

\* C3, as claimed: once initializeApp has failed, every request is answered
\* success:false.
C3_FailedInitDisablesHandlers ==
  resp # NoResp /\ resp.req.initAt = "failed" => ~resp.success

\* C4, as claimed: whatever the table holds, a get-todos sent right after
\* add-todo succeeded lists a record with the id and the text add-todo
\* returned.
C4_AddedIsListed ==
  ListedAfter("add-todo") =>
    \E k \in Entries(resp.list, prev.item.id) :
      resp.list[k].text = prev.item.text

\* C4, amended: a get-todos sent right after add-todo succeeded lists a
\* record with the returned id and text, provided the table holds no more
\* records than the limit of get-todos when it is read.
C4_AddedIsListedWithinLimit ==
  ListedAfter("add-todo") /\ Len(rows) <= LIST_LIMIT =>
    \E k \in Entries(resp.list, prev.item.id) :
      resp.list[k].text = prev.item.text

\* add-todo succeeded on a table that it filled up to the limit, and the
\* get-todos sent next returned the full table
C4_Witness ==
  /\ ListedAfter("add-todo")
  /\ Len(rows) = LIST_LIMIT
  /\ Len(resp.list) = LIST_LIMIT

\* C5, as claimed: a get-todos sent right after an update-todo that no
\* request overlapped succeeded lists exactly one record with that id, and
\* its text and timestamp are the ones update-todo returned.
C5_UpdatedIsListedOnce ==
  ListedAfter("update-todo") =>
    /\ Cardinality(Entries(resp.list, prev.item.id)) = 1
    /\ \A k \in Entries(resp.list, prev.item.id) : resp.list[k] = prev.item

\* C5, amended: the same, provided the table holds no more records than the
\* limit of get-todos when it is read.
C5_UpdatedIsListedOnceWithinLimit ==
  ListedAfter("update-todo") /\ Len(rows) <= LIST_LIMIT =>
    /\ Cardinality(Entries(resp.list, prev.item.id)) = 1
    /\ \A k \in Entries(resp.list, prev.item.id) : resp.list[k] = prev.item

\* update-todo replaced the text of an existing record by another one at a
\* later time, next to a second record, and get-todos was sent next
C5_Witness ==
  /\ ListedAfter("update-todo")
  /\ prev.found = 1
  /\ prev.item.timestamp > 0
  /\ Len(resp.list) = LIST_LIMIT

\* C6: a get-todos sent right after delete-todo succeeded lists no record
\* with the deleted id, whatever the table held.
C6_DeletedIsNotListed ==
  ListedAfter("delete-todo") => Entries(resp.list, prev.item.id) = {}

\* delete-todo removed an existing record from a table that held others, and
\* the get-todos sent next returned those
C6_Witness ==
  /\ ListedAfter("delete-todo")
  /\ prev.found = 1
  /\ Len(resp.list) >= 1

\* the latest step delivered the success of a delete-todo that was sent right
\* after the success of a delete-todo for the same id
DeletedTwice ==
  /\ Responded("delete-todo") /\ resp.success /\ resp.alone
  /\ prev.op = "delete-todo" /\ prev.success /\ prev.alone
  /\ prev.item.id = resp.req.id

\* C7: when delete-todo, on the initialized store, reaches the table with an
\* id that no row carries, the table is left as it was and, unless the table
\* call throws, the handler returns success with that id; and the second of
\* two delete-todo for one id, the first having succeeded, finds no row with
\* the id, so it is such a call.
C7_DeleteOfMissingIdIsNoOp ==
  [][/\ \A s \in Slots :
          /\ At(s, "delete-todo", "delete")
          /\ ~InFlight(s)'
          /\ CountId(rows, reqs[s].id) = 0
          => /\ rows' = rows
             /\ \/ resp'.success /\ resp'.item.id = reqs[s].id
                \/ ~resp'.success /\ resp'.error = "table.delete failed"
     /\ DeletedTwice' => resp'.req.found = 0
    ]_vars

\* delete-todo succeeded twice in a row for one id: the first removed a
\* record, the second found none, and other records are in the table
C7_Witness ==
  /\ DeletedTwice
  /\ prev.found = 1
  /\ resp.req.found = 0
  /\ Len(rows) >= 1

\* C8: an update-todo, on the initialized store and overlapped by no other
\* request, whose id no row carries is not rejected (it fails only if the
\* embedder or the table throws); when it returns success the table holds
\* exactly one row with that id, and the row has the new text and the
\* returned timestamp.
C8_UpdateOfMissingIdCreates ==
  Responded("update-todo") /\ resp.alone /\ resp.req.found = 0 =>
    /\ resp.success \/ resp.error \in Thrown
    /\ resp.success =>
         /\ resp.item.id = resp.req.id
         /\ resp.item.text = resp.req.text
         /\ CountId(rows, resp.req.id) = 1
         /\ \A i \in 1..Len(rows) :
              rows[i].id = resp.req.id =>
                /\ rows[i].text = resp.req.text
                /\ rows[i].timestamp = resp.item.timestamp

\* update-todo succeeded for an id that no row carried, in a table that held
\* another record
C8_Witness ==
  /\ Responded("update-todo") /\ resp.success /\ resp.alone
  /\ resp.req.found = 0
  /\ Len(rows) >= 2

\* null or undefined, the empty string, and a string of white space
BlankQueries == {Null, "", " "}

\* C9: on the initialized store, search-todos with a null, undefined, empty
\* or white-space query returns success with no results at once: it is never
\* suspended, and it calls neither the embedder nor the table.
C9_BlankQueryShortCircuits ==
  /\ \A s \in Slots :
       reqs[s].op = "search-todos" => reqs[s].query \notin BlankQueries
  /\ Responded("search-todos") /\ resp.req.query \in BlankQueries =>
       /\ resp.success
       /\ resp.list = <<>>
       /\ resp.req.emb = 0
       /\ resp.req.tbl = 0

\* a white-space query with date bounds was answered while the table held
\* records
C9_Witness ==
  /\ Responded("search-todos")
  /\ resp.req.query = " "
  /\ resp.req.startDate # Null
  /\ resp.success
  /\ Len(rows) >= 1

\* the YYYY-MM-DD strings that name a day
IsDay(date) == \E i \in 1..Len(DayNames) : DayNames[i] = date

\* days from 1970-01-01 to the day a valid string names
DayNumber(date) == (CHOOSE i \in 1..Len(DayNames) : DayNames[i] = date) - 1

\* 00:00:00.000 UTC of startDate <= timestamp <= 23:59:59.999 UTC of
\* endDate, each bound applied only if it is a given day
WithinBounds(timestamp, startDate, endDate) ==
  /\ IsDay(startDate) => timestamp >= DayNumber(startDate) * 86400000
  /\ IsDay(endDate) => timestamp <= DayNumber(endDate) * 86400000 + 86399999

\* C10: every record a successful search-todos returns has its timestamp
\* within the bounds given, and the bounds are inclusive: when the table
\* holds no more records than the limit of search-todos, every record of the
\* table within the bounds, those at a bound included, is returned.
C10_DateBoundsInclusive ==
  Responded("search-todos") /\ resp.success /\ resp.req.tbl = 1 =>
    /\ \A k \in 1..Len(resp.list) :
         WithinBounds(resp.list[k].timestamp, resp.req.startDate,
                      resp.req.endDate)
    /\ Len(rows) <= SEARCH_LIMIT =>
         \A i \in 1..Len(rows) :
           WithinBounds(rows[i].timestamp, resp.req.startDate,
                        resp.req.endDate)
           => Entries(resp.list, rows[i].id) # {}

\* the table holds records of 1970-01-01, 1970-01-02 and 1970-01-03, and a
\* search bounded by 1970-01-02 on both sides returned one record, whose
\* timestamp is the first or the last millisecond of that day
C10_Witness ==
  /\ Responded("search-todos") /\ resp.success
  /\ resp.req.startDate = "1970-01-02" /\ resp.req.endDate = "1970-01-02"
  /\ Len(resp.list) = 1
  /\ resp.list[1].timestamp \in {86400000, 86400000 + 86399999}
  /\ \E i \in 1..Len(rows) : rows[i].timestamp < 86400000
  /\ \E i \in 1..Len(rows) : rows[i].timestamp > 86400000 + 86399999

\* the distance between the vector stored under this id and the embedding
\* of the query
DistanceToQuery(id, query) ==
  LET i == CHOOSE j \in 1..Len(rows) : rows[j].id = id
  IN (rows[i].vector - Embed(query)) * (rows[i].vector - Embed(query))

\* C11: a successful search-todos returns at most as many results as its
\* limit, each result's score is the distance between the vector of the
\* record and the embedding of the query, and scores do not decrease along
\* the list: a record closer to the query precedes one farther from it.
C11_NearestFirstWithinLimit ==
  Responded("search-todos") /\ resp.success =>
    /\ Len(resp.list) <= SEARCH_LIMIT
    /\ \A k \in 1..Len(resp.list) :
         /\ CountId(rows, resp.list[k].id) = 1
         /\ resp.list[k].score = DistanceToQuery(resp.list[k].id,
                                                 resp.req.query)
    /\ \A k, l \in 1..Len(resp.list) :
         k < l => resp.list[k].score <= resp.list[l].score

\* a search over a table that holds more records than the limit returned as
\* many results as the limit, the first one closer to the query than the
\* last one although it was stored after it
C11_Witness ==
  /\ Responded("search-todos") /\ resp.success
  /\ Len(rows) > SEARCH_LIMIT
  /\ Len(resp.list) = SEARCH_LIMIT
  /\ resp.list[1].score < resp.list[SEARCH_LIMIT].score
  /\ \E i, j \in 1..Len(rows) :
       /\ i < j
       /\ rows[j].id = resp.list[1].id
       /\ rows[i].id = resp.list[SEARCH_LIMIT].id

\* C12: a successful get-todos returns at most as many records as its limit,
\* in order of non-increasing timestamp, and each of them carries id, text
\* and timestamp and nothing else (no vector).
C12_ListNewestFirstWithinLimit ==
  Responded("get-todos") /\ resp.success =>
    /\ Len(resp.list) <= LIST_LIMIT
    /\ \A k \in 1..Len(resp.list) :
         DOMAIN resp.list[k] = {"id", "text", "timestamp"}
    /\ \A k, l \in 1..Len(resp.list) :
         k < l => resp.list[k].timestamp >= resp.list[l].timestamp

\* get-todos read a table that holds more records than the limit and
\* returned as many as the limit, the first one newer than the last one
\* although it was stored after it
C12_Witness ==
  /\ Responded("get-todos") /\ resp.success
  /\ Len(rows) > LIST_LIMIT
  /\ Len(resp.list) = LIST_LIMIT
  /\ resp.list[1].timestamp > resp.list[LIST_LIMIT].timestamp
  /\ \E i, j \in 1..Len(rows) :
       /\ i < j
       /\ rows[j].id = resp.list[1].id
       /\ rows[i].id = resp.list[LIST_LIMIT].id

\* C13: every response a handler delivers, also when the embedder, the id
\* generator or a table call has thrown, is a result object with a boolean
\* success; a failure carries an error message and no item or id, a success
\* carries no error.
C13_TaggedResults ==
  resp # NoResp =>
    /\ resp.success \in BOOLEAN
    /\ ~resp.success => resp.error # "" /\ resp.item = NoItem
    /\ resp.success => resp.error = ""

\* update-todo returned a failure after its table.add threw, its
\* table.delete having removed the record
C13_Witness ==
  /\ Responded("update-todo")
  /\ ~resp.success
  /\ resp.error = "table.add failed"
  /\ resp.req.found = 1
  /\ resp.req.tbl = 2

\* C15: once initializeApp has completed successfully the handles it
\* assigned stay assigned, and no request handled after that is answered
\* "not initialized", also after the window was closed and created again.
C15_InitializedForGood ==
  /\ initPc = "done" => {"table", "embedder", "nanoidFn"} \subseteq handles
  /\ resp # NoResp /\ resp.req.initAt = "done" =>
       resp.error \notin NotInitializedErrors

\* initializeApp completed while the window was closed (no notification was
\* sent), the window was created again, and a request sent from it succeeded
C15_Witness ==
  /\ initPc = "done"
  /\ notified = <<>>
  /\ mainWindow
  /\ resp # NoResp
  /\ resp.req.initAt = "done"
  /\ resp.success

\* the notifications of this run include this one
Notified(channel) == \E k \in 1..Len(notified) : notified[k] = channel

\* the table holds the schema seed record
SeedRecordStored == \E i \in 1..Len(rows) : rows[i].id = "dummy_id_init"

\* C14, as claimed: in every state in which the table handle is set, in the
\* run that creates the table and in every later run, the table holds no
\* schema seed record.
C14_SeedRecordNeverReadable ==
  "table" \in handles => ~SeedRecordStored

\* C17, as claimed: in a run that has sent initialization-success the
\* embedder is loaded, the table handle is set, the table holds no schema
\* seed record, and initialization-error is not sent.
C17_SuccessMeansReady ==
  Notified("initialization-success") =>
    /\ "embedder" \in handles
    /\ "table" \in handles
    /\ ~SeedRecordStored
    /\ ~Notified("initialization-error")

\* C16, as claimed: in a run in which initializeApp has failed, exactly one
\* initialization-error notification has been sent to the renderer.
C16_FailureNotifiedOnce ==
  initPc = "failed" =>
    Cardinality({k \in 1..Len(notified) :
                   notified[k] = "initialization-error"}) = 1

\* the texts that are empty once trimmed
BlankTexts == {"", " "}

\* C18: no record of the table has an empty or whitespace-only text, and no
\* add-todo or update-todo handler is ever running with such a text: the
\* click listeners dismiss these submissions before a request is sent, so
\* table.add is never reached with them.
C18_NoBlankText ==
  /\ \A k \in 1..Len(rows) : rows[k].text \notin BlankTexts
  /\ \A s \in Slots :
       reqs[s].op \in {"add-todo", "update-todo"} =>
         reqs[s].text \notin BlankTexts
  /\ resp # NoResp /\ resp.req.op \in {"add-todo", "update-todo"} =>
       resp.req.text \notin BlankTexts

\* a whitespace-only text submitted for an existing todo was dismissed, and
\* the table still holds a record
C18_Witness ==
  /\ dismissed.click = "updateTodoBtn"
  /\ dismissed.value = " "
  /\ Len(rows) >= 1
  /\ resp = NoResp

\* C19: the main list fetchTodos displays for a successful get-todos result
\* has the most recent todo on top and timestamps that do not increase
\* downwards.
C19_DisplayedNewestFirst ==
  Responded("get-todos") /\ resp.success =>
    LET shown == fetchTodos(resp) IN
      \A k, l \in 1..Len(shown) :
        k < l => shown[k].timestamp >= shown[l].timestamp

\* C20: when update-todo's table.delete succeeded and its table.add then
\* threw, the handler answers success: false with the thrown message and no
\* item, and the table holds no record with the id: the record deleted is not
\* put back.
C20_FailedUpdateLosesRecord ==
  /\ Responded("update-todo") /\ resp.req.tbl = 2 /\ ~resp.success =>
       /\ resp.error = "table.add failed"
       /\ resp.item = NoItem
       /\ resp.alone => CountId(rows, resp.req.id) = 0
  /\ \A s \in Slots :
       At(s, "update-todo", "add") /\ prev.alone =>
         CountId(rows, reqs[s].id) = 0

\* an update of a stored record failed at table.add, and the record is gone
C20_Witness ==
  /\ Responded("update-todo") /\ ~resp.success /\ resp.alone
  /\ resp.req.tbl = 2
  /\ resp.req.found = 1
  /\ CountId(rows, resp.req.id) = 0
  /\ resp.req.id # UnknownId

\* both dates name a day and the start day is later than the end day
InvertedRange(startDate, endDate) ==
  /\ IsDay(startDate) /\ IsDay(endDate)
  /\ DayNumber(startDate) > DayNumber(endDate)

\* C21: search-todos with a non-empty query and a start date later than the
\* end date runs the search like any other: when it answers success the
\* results are empty, and it answers failure only with what the embedder or
\* the table threw, never with an error about the dates.
C21_InvertedRangeIsEmpty ==
  /\ Responded("search-todos")
  /\ ~EmptyQuery(resp.req.query)
  /\ InvertedRange(resp.req.startDate, resp.req.endDate)
  => /\ resp.success => resp.list = <<>> /\ resp.req.tbl = 1
     /\ ~resp.success => resp.error \in {"embedding failed", "execute failed"}

\* a search over a table with records, from the second day to the first,
\* answered success with no results
C21_Witness ==
  /\ Responded("search-todos") /\ resp.success
  /\ resp.req.query = "a"
  /\ resp.req.startDate = DayNames[2] /\ resp.req.endDate = DayNames[1]
  /\ resp.list = <<>>
  /\ Len(rows) >= 1

\* the handlers that compute an embedding before they write
Embedding(s) ==
  reqs[s].op \in {"add-todo", "update-todo"} /\ reqs[s].pc = "embed"

\* C22: an add-todo or update-todo whose embedding step fails answers
\* success: false, and the table is as it was when the request was made: the
\* step that starts the handler, every step taken while it waits for the
\* embedding, and the step in which the embedding fails leave the table
\* unchanged, so a record being updated is still there.
C22_EmbeddingFailureLeavesTable ==
  [][\A s \in Slots :
       /\ reqs[s].pc = "idle" /\ Embedding(s)' => rows' = rows
       /\ Embedding(s) => rows' = rows
       /\ Embedding(s) /\ reqs'[s].pc = "idle" /\ resp'.error = "embedding failed"
          => /\ ~resp'.success
             /\ resp'.item = NoItem
             /\ resp'.req.op = reqs[s].op
             /\ reqs[s].op = "update-todo" =>
                  CountId(rows', reqs[s].id) = reqs[s].found]_vars

\* the update of a stored record failed at the embedding, and the record is
\* in the table with the text it had
C22_Witness ==
  /\ Responded("update-todo") /\ ~resp.success
  /\ resp.error = "embedding failed"
  /\ resp.req.found = 1
  /\ \E i \in 1..Len(rows) :
       rows[i].id = resp.req.id /\ rows[i].text # resp.req.text

\* the rows whose id is not the given one, in table order
OtherRows(rs, todoId) ==
  LET Other(r) == r.id # todoId IN SelectSeq(rs, Other)

C24_OneMutationPerId ==
  \A s, t \in Slots :
    /\ s # t
    /\ InFlight(s) /\ InFlight(t)
    /\ reqs[s].op \in {"update-todo", "delete-todo"}
    /\ reqs[t].op \in {"update-todo", "delete-todo"}
    => reqs[s].id # reqs[t].id

\* C25: when an update-todo made from edit mode succeeds, its text differs
\* from the text the todo had when the edit began, and the search box holds
\* a query that is not blank, a search-todos invocation is in flight once
\* the update listener has run.
C25_UpdateRerunsSearch ==
  [][\A s \in Slots :
       /\ At(s, "update-todo", "add")
       /\ reqs'[s] # reqs[s]
       /\ resp'.req.op = "update-todo" /\ resp'.success
       /\ ui.editingTodoId = reqs[s].id
       /\ ui.originalText # Null /\ reqs[s].text # ui.originalText
       /\ Trim(ui.searchInput) # ""
       => \E t \in Slots : reqs'[t].op = "search-todos" /\ InFlight(t)']_vars

\* C26: whenever exitEditMode ends an edit and no initialization-error has
\* been received, the search controls, the tabs and the buttons of the
\* listed items are enabled afterwards.
C26_ExitEnablesControls ==
  [][/\ ui.editingTodoId # "" /\ ui'.editingTodoId = ""
     /\ ~Notified("initialization-error")
     => /\ ~ui'.searchDisabled
        /\ ~ui'.tabsDisabled
        /\ ~ui'.itemsDisabled]_vars

\* a date argument that is given and names no day: new Date(...) is invalid
Unparsed(date) == Truthy(date) /\ ~IsDay(date)

\* C27: a search-todos with a query that is not blank and a date argument
\* that does not parse is answered like one without that argument: it fails
\* only with what the embedder or the table threw, and when it succeeds the
\* results are within the other bound, if that one is valid, and, the table
\* holding no more records than the limit, every record within the other
\* bound is returned.
C27_UnparsedBoundIsOmitted ==
  /\ Responded("search-todos")
  /\ ~EmptyQuery(resp.req.query)
  /\ Unparsed(resp.req.startDate) \/ Unparsed(resp.req.endDate)
  => /\ ~resp.success => resp.error \in {"embedding failed", "execute failed"}
     /\ resp.success =>
          /\ \A k \in 1..Len(resp.list) :
               WithinBounds(resp.list[k].timestamp, resp.req.startDate,
                            resp.req.endDate)
          /\ Len(rows) <= SEARCH_LIMIT =>
               \A i \in 1..Len(rows) :
                 WithinBounds(rows[i].timestamp, resp.req.startDate,
                              resp.req.endDate)
                 => Entries(resp.list, rows[i].id) # {}

\* a search with a start date that does not parse and a valid end date
\* returned the record before the end and left out the one after it
C27_Witness ==
  /\ Responded("search-todos") /\ resp.success
  /\ resp.req.startDate = "not-a-date"
  /\ resp.req.endDate = DayNames[1]
  /\ Len(resp.list) = 1
  /\ Len(rows) = 2
  /\ \E i \in 1..Len(rows) : rows[i].timestamp >= MsPerDay

\* the request carries the dates of the date inputs, null for an empty one
CarriesDates(req) ==
  /\ req.op = "search-todos"
  /\ req.startDate = (IF ui.startDate = "" THEN Null ELSE ui.startDate)
  /\ req.endDate = (IF ui.endDate = "" THEN Null ELSE ui.endDate)

\* C28: while both date inputs are set and the end date is earlier than the
\* start date no search-todos request is sent, and a click on the search
\* button is answered with the alert; every request that is sent, with equal
\* dates, one date or none, carries the dates of the inputs, null for an
\* input that is not set.
C28_InvertedDatesNotSent ==
  [][/\ InvertedRange(ui.startDate, ui.endDate) =>
          /\ issued' = issued
          /\ \A s \in Slots : InFlight(s)' => InFlight(s)
          /\ dismissed'.click = "searchTodoBtn" =>
               dismissed'.alert = "End date cannot be before start date."
     /\ dismissed'.click = "searchTodoBtn" =>
          InvertedRange(ui.startDate, ui.endDate)
     /\ \A s \in Slots :
          ~InFlight(s) /\ InFlight(s)' => CarriesDates(reqs'[s])
     /\ issued' # issued /\ reqs' = reqs => CarriesDates(resp'.req)]_vars

\* the click on the search button, the end date a day before the start
\* date, was answered with the alert
C28_Witness ==
  /\ dismissed.click = "searchTodoBtn"
  /\ ui.startDate = DayNames[2] /\ ui.endDate = DayNames[1]
  /\ ui.searchInput = "a"
  /\ Quiet

\* the records are NUM_ITEMS many, with ids that differ from one another and
\* from the id of every row of the table
FreshBatch(records, rs) ==
  /\ Len(records) = NUM_ITEMS
  /\ \A k, l \in 1..Len(records) : k # l => records[k].id # records[l].id
  /\ \A k \in 1..Len(records) : CountId(rs, records[k].id) = 0

\* C29: seed-demo-data changes the table in one step or not at all: the step
\* that starts it and every step of its loop leave the table as it is; its
\* last step either appends the NUM_ITEMS records it built, with fresh ids
\* that are pairwise distinct, and answers success with count NUM_ITEMS, or
\* appends nothing and answers failure.
C29_SeedAllOrNothing ==
  [][\A s \in Slots :
       /\ ~InFlight(s) /\ reqs'[s].op = "seed-demo-data" => rows' = rows
       /\ reqs[s].op = "seed-demo-data" /\ reqs'[s] # reqs[s] =>
            \/ /\ rows' = rows
               /\ ~InFlight(s)' => ~resp'.success /\ resp'.count = 0
            \/ /\ reqs[s].pc = "add" /\ ~InFlight(s)'
               /\ resp'.req.op = "seed-demo-data"
               /\ resp'.success /\ resp'.count = NUM_ITEMS
               /\ FreshBatch(reqs[s].acc, rows)
               /\ rows' = rows \o reqs[s].acc]_vars

\* seed-demo-data succeeded on a table that held a record already
C29_Witness ==
  /\ Responded("seed-demo-data") /\ resp.success
  /\ resp.count = NUM_ITEMS
  /\ Len(rows) = NUM_ITEMS + 1
  /\ rows[1].text # DemoText

\* C30: every record seed-demo-data builds has a timestamp no later than the
\* moment the handler read the clock and no more than SEED_DAYS days before
\* it.
C30_SeedTimestampsInWindow ==
  \A s \in Slots :
    reqs[s].op = "seed-demo-data" =>
      \A k \in 1..Len(reqs[s].acc) :
        /\ reqs[s].acc[k].timestamp <= reqs[s].today
        /\ reqs[s].acc[k].timestamp >= reqs[s].today - SEED_DAYS * MsPerDay

\* C38: whenever the table handle is set, the embedder and nanoidFn are set
\* too, so a get-todos or delete-todo that passes its check of the table is
\* answered only in states where no handler would answer "not initialized".
C38_TableImpliesEmbedderAndNanoid ==
  /\ "table" \in handles => {"embedder", "nanoidFn"} \subseteq handles
  /\ /\ resp.req.op \in {"get-todos", "delete-todo"}
     /\ resp.error \notin NotInitializedErrors
     => {"table", "embedder", "nanoidFn"} \subseteq handles

\* get-todos is answered from the table while initializeApp still has the
\* removal of the dummy row ahead
C38_Witness ==
  /\ "table" \in handles
  /\ initPc = "deleteDummy"
  /\ resp.req.op = "get-todos"
  /\ resp.success

\* C35: a click on Update with empty text, or with the text the edited todo
\* already has, sends no update-todo request, leaves the table as it is and
\* exits edit mode: no step starts an update-todo with such a text, and the
\* step of a click that is turned down changes neither the table nor the
\* requests in flight and ends with editingTodoId empty.
C35_NoOpUpdateSendsNothing ==
  [][/\ \A s \in Slots :
         (/\ ~InFlight(s)
          /\ InFlight(s)'
          /\ reqs'[s].op = "update-todo")
         => reqs'[s].text \notin {"", ui.originalText}
     /\ (dismissed'.click = "updateTodoBtn")
        => /\ Trim(dismissed'.value) \in {"", ui.originalText}
           /\ rows' = rows
           /\ reqs' = reqs
           /\ issued' = issued
           /\ ui.editingTodoId # ""
           /\ ui'.editingTodoId = ""]_vars

\* Update was clicked with the text unchanged while a record was stored
C35_Witness ==
  /\ dismissed.click = "updateTodoBtn"
  /\ dismissed.alert = "No changes made to the todo text."
  /\ rows # <<>>
  /\ ui.editingTodoId = ""

\* C37: where every awaited call of the embedder and of the table returns or
\* throws, every handler invocation resolves with a result in the end,
\* whatever other requests are in flight, and the result it resolves with
\* is that of its own request.
C37_EveryInvocationResolves ==
  /\ \A s \in Slots : InFlight(s) ~> ~InFlight(s)
  /\ [][\A s \in Slots :
         (InFlight(s) /\ ~InFlight(s)') =>
           /\ resp'.req.op = reqs[s].op
           /\ resp'.success \/ resp'.error # ""]_vars

\* a handler has resolved with success while another, which was entered
\* before it resolved, is still suspended
C37_Witness ==
  /\ resp.success
  /\ ~resp.alone
  /\ \E s \in Slots : InFlight(s)

\* C31: at most one todo is in edit mode at a time.  A click on an item's
\* Edit button while editingTodoId is not empty leaves editingTodoId, the
\* text of the input field and the saved original as they were, and no step
\* replaces the todo being edited by another.
C31_OneEditAtATime ==
  [][/\ (dismissed'.click = "editButton")
        => /\ ui.editingTodoId # ""
           /\ ui'.editingTodoId = ui.editingTodoId
           /\ ui'.todoInput = ui.todoInput
           /\ ui'.originalText = ui.originalText
     /\ (ui.editingTodoId # "" /\ ui'.editingTodoId # "")
        => /\ ui'.editingTodoId = ui.editingTodoId
           /\ ui'.originalText = ui.originalText]_vars

\* the Edit button of another todo, rendered after edit mode was entered,
\* has been clicked during the edit
C31_Witness ==
  /\ dismissed.click = "editButton"
  /\ ui.editingTodoId # ""
  /\ dismissed.value # ui.editingTodoId

\* C32: no delete-todo is sent for the id that editingTodoId holds at the
\* moment of the click, whichever item's Delete button was clicked.
C32_EditedTodoIsNotDeleted ==
  [][\A s \in Slots :
       (/\ ~InFlight(s)
        /\ InFlight(s)'
        /\ reqs'[s].op = "delete-todo")
       => reqs'[s].id # ui.editingTodoId]_vars

\* the Delete button of the todo being edited, on an item rendered after
\* edit mode was entered, has been clicked and turned down
C32_Witness ==
  /\ dismissed.click = "deleteButton"
  /\ dismissed.value = ui.editingTodoId
  /\ ui.itemsDisabled
  /\ \A s \in Slots : reqs[s].op # "delete-todo"

\* C33: while a todo is being edited the active tab does not change and
\* fetchTodos() is not called, also when a search-todos or seed-demo-data
\* sent before edit mode was entered is answered during the edit.
C33_EditFreezesTabAndList ==
  [][(ui.editingTodoId # "" /\ ui'.editingTodoId # "")
     => /\ ui'.activeTab = ui.activeTab
        /\ ui'.pendingFetch => ui.pendingFetch]_vars

\* C34: in the window that has listed the table once, as long as fewer ids
\* than the list limit have been handed out, whenever no request is in
\* flight and no fetchTodos() is under way the ids of the items of the main
\* list are the ids of the records of the table.
C34_ListMatchesTable ==
  (Quiet /\ ~ui.pendingFetch /\ idsUsed < LIST_LIMIT)
  => ui.shown = {rows[i].id : i \in 1..Len(rows)}

\* C36: once initializeApp has completed successfully, a window that is
\* open, whether it was open all along or was created afterwards, has its
\* initialization-success callback run in the end, unless it is closed
\* first.
C36_EveryWindowIsNotified ==
  [](("table" \in handles /\ initPc = "done" /\ mainWindow)
     => <>(ui.initialized \/ ~mainWindow))

\* C39: in every state of the window the add button is hidden exactly when
\* editingTodoId is not empty, which is exactly when the update and the
\* cancel button are shown and the saved original of the todo is not null.
C39_EditControlsAgree ==
  /\ ui.addHidden <=> ui.editingTodoId # ""
  /\ ~ui.updateHidden <=> ui.editingTodoId # ""
  /\ ~ui.cancelHidden <=> ui.editingTodoId # ""
  /\ ui.originalText # Null <=> ui.editingTodoId # ""

\* a second edit has been entered after the first was left
C39_Witness ==
  /\ ui.editingTodoId # ""
  /\ ui.addHidden
  /\ prev.op = "update-todo"

====
